---- MODULE Spec2Model ----
(***************************************************************************)
(* A model of package heap (src/heap.go): a generic binary min/max heap    *)
(* backed by a Go slice that denotes an implicit binary tree.              *)
(*                                                                         *)
(* A Go slice is modelled as a record                                      *)
(*     [isnil |-> BOOLEAN, arr |-> backing array, len |-> length]          *)
(* where arr holds the cells of the backing array from the slice's start,  *)
(* so that cap(slice) = Len(arr).  Indices are 0-based as in the source;   *)
(* cell i of the array is arr[i+1].                                        *)
(***************************************************************************)
EXTENDS Integers, Sequences, FiniteSets, Bags, TLC

\* ------------------------------------------------------------------ bounds
\* Longest heap the model builds (Push is disabled at this length).
MaxLen == 4
\* Elements are the integers -MaxVal..MaxVal (0 is the zero value of T).
MaxVal == 1
\* Longest heap of the copy scenario, where two heaps evolve side by side.
MaxCopyLen == 2
\* Longest heap of the deep-Pop scenario: three levels, so that the element
\* Pop re-inserts at the hole can rise.
MaxDeepLen == 6
\* Elements of the deep-Pop scenario.
DeepVals == 0..(MaxVal + 2)
\* Longest heap of the deep-Filter scenario: long enough for a re-pushed
\* element to get a parent it did not have.
MaxFilterLen == 6
\* Elements of the deep-Filter scenario.
FilterVals == 0..(MaxVal + 1)
\* Width in bits of the machine integer (Go's int, scaled down) in the
\* comparison scenario.
IntBits == 6
\* Longest heap of the loop scenario: bubble can iterate twice.
MaxLoopLen == 4
\* Elements of the loop scenario.
LoopVals == 0..MaxVal
\* Longest heap of the keyed scenario (elements with a key and a content).
MaxKeyedLen == 6
\* Keys of the keyed scenario.
Keys == 0..(MaxVal + 1)
\* Elements of the copy scenario: the zero value and the positive values.
CopyVals == 0..MaxVal

Vals == (0 - MaxVal)..MaxVal

VARIABLES
    mom,     \* the MOM type parameter of Heap[T, MOM]: "Min" or "Max"
    h,       \* heap.sl, the backing slice of the heap
    op,      \* the operation that produced this state
    arg,     \* the argument of that operation (Push element, Filter predicate)
    ret,     \* what that operation returned
    ref,     \* the naive reference heap: a sorted list
    pushed,  \* the elements pushed so far, in order (drain scenario)
    popped,  \* the elements popped so far, in order (drain scenario)
    phase,   \* drain scenario position: "push", "pop" or "done"
    trace,   \* what the last Pop or Clear started from and Pop's hole descent
    cpy      \* copy scenario: the heap Copy returned and its backing store

vars == <<mom, h, op, arg, ret, ref, pushed, popped, phase, trace, cpy>>

\* ---------------------------------------------------------------- Go slices
\* The zero value of T (T = int).
Zero == 0

\* The nil slice: the zero value of Heap.sl.
NilSlice == [isnil |-> TRUE, arr |-> <<>>, len |-> 0]

\* len(a) and cap(a).
LenOf(a) == a.len
CapOf(a) == Len(a.arr)

\* a[i] for 0 <= i < len(a).
At(a, i) == a.arr[i + 1]

\* The elements a[0..len(a)-1] as a sequence.
Elems(a) == SubSeq(a.arr, 1, a.len)

\* n cells holding the zero value.
Zeros(n) == [k \in 1..n |-> Zero]

\* make([]T, n): a fresh non-nil slice of n zero cells, capacity n.
Make(n) == [isnil |-> FALSE, arr |-> Zeros(n), len |-> n]

\* a[0:n] for n <= cap(a): same backing array, new length.  Slicing the nil
\* slice gives the nil slice.
Reslice(a, n) == [a EXCEPT !.len = n]

\* append(a, elem).  With room in the backing array the element is written in
\* place; otherwise a new array of capacity newcap > len(a) is allocated, the
\* elements copied and the rest zeroed.  The growth factor is the runtime's
\* choice, so newcap is an input.
GoAppend(a, elem, newcap) ==
    IF a.len < CapOf(a)
    THEN [isnil |-> FALSE,
          arr   |-> [a.arr EXCEPT ![a.len + 1] = elem],
          len   |-> a.len + 1]
    ELSE [isnil |-> FALSE,
          arr   |-> [k \in 1..newcap |->
                        IF k <= a.len THEN a.arr[k]
                        ELSE IF k = a.len + 1 THEN elem ELSE Zero],
          len   |-> a.len + 1]

\* The capacities the runtime may choose when appending to a full slice of
\* length n: from an exact fit to doubling.
GrowCaps(n) == (n + 1)..(2 * n + 2)

\* Cells at and beyond len(a) are read by no operation before it writes them
\* (Filter's re-push reads only cells its own scan wrote), so states are
\* stored with those cells zeroed.
Normalize(a) ==
    [a EXCEPT !.arr = [k \in 1..Len(a.arr) |-> IF k <= a.len THEN a.arr[k] ELSE Zero]]

\* ----------------------------------------------------------------- ordering
\* A polarity sign that is +1 for both Min and Max.
mulMin(m) == 1

mul(m) == IF m = "Min" THEN 1 ELSE 0 - 1

cmpOrdered(a, b) == IF a < b THEN 0 - 1 ELSE IF a > b THEN 1 ELSE 0

\* The cmp closure Push/Pop/Filter pass down: compares heap.sl[i], heap.sl[j].
cmp(a, i, j) == cmpOrdered(At(a, i), At(a, j))

parentIndex(i) == (i - 1) \div 2
leftChildIndex(i) == (i * 2) + 1
rightChildIndex(i) == (i * 2) + 2

\* ------------------------------------------------------------------ sifting
Swap(a, i, j) ==
    [a EXCEPT !.arr = [a.arr EXCEPT ![i + 1] = a.arr[j + 1], ![j + 1] = a.arr[i + 1]]]

\* bubble with the loop written as a single test: at most one swap.
bubbleOnce(a, i, m) ==
    IF i > 0 /\ mul(m) * cmp(a, i, parentIndex(i)) < 0
    THEN Swap(a, i, parentIndex(i))
    ELSE a

RECURSIVE bubble(_, _, _)
bubble(a, i, m) ==
    IF i > 0
    THEN LET pi == parentIndex(i) IN
         IF mul(m) * cmp(a, i, pi) >= 0
         THEN a
         ELSE bubble(Swap(a, i, pi), pi, m)
    ELSE a

\* holeDown with the child comparison reversed: the worse child moves up.
RECURSIVE holeDownWorse(_, _, _)
holeDownWorse(a, i, m) ==
    LET lci == leftChildIndex(i)
        rci == rightChildIndex(i)
    IN  IF lci >= a.len
        THEN [sl |-> a, i |-> i]
        ELSE IF rci >= a.len \/ mul(m) * cmp(a, rci, lci) < 0
             THEN holeDownWorse([a EXCEPT !.arr[i + 1] = a.arr[lci + 1]], lci, m)
             ELSE holeDownWorse([a EXCEPT !.arr[i + 1] = a.arr[rci + 1]], rci, m)

\* The loop of pushRootHoleDownToLeaf from hole index i on; the result is the
\* slice and the leaf index where the hole ended.
\* A hole descent that goes left on a tie.
RECURSIVE holeDownTiesLeft(_, _, _)
holeDownTiesLeft(a, i, m) ==
    LET lci == leftChildIndex(i)
        rci == rightChildIndex(i)
    IN  IF lci >= a.len
        THEN [sl |-> a, i |-> i]
        ELSE IF rci >= a.len \/ mul(m) * cmp(a, rci, lci) >= 0
             THEN holeDownTiesLeft([a EXCEPT !.arr[i + 1] = a.arr[lci + 1]], lci, m)
             ELSE holeDownTiesLeft([a EXCEPT !.arr[i + 1] = a.arr[rci + 1]], rci, m)

\* A hole descent that stops at a node without a right child.
RECURSIVE holeDownStopEarly(_, _, _)
holeDownStopEarly(a, i, m) ==
    LET lci == leftChildIndex(i)
        rci == rightChildIndex(i)
    IN  IF rci >= a.len
        THEN [sl |-> a, i |-> i]
        ELSE IF mul(m) * cmp(a, rci, lci) > 0
             THEN holeDownStopEarly([a EXCEPT !.arr[i + 1] = a.arr[lci + 1]], lci, m)
             ELSE holeDownStopEarly([a EXCEPT !.arr[i + 1] = a.arr[rci + 1]], rci, m)

RECURSIVE holeDown(_, _, _)
holeDown(a, i, m) ==
    LET lci == leftChildIndex(i)
        rci == rightChildIndex(i)
    IN  IF lci >= a.len
        THEN [sl |-> a, i |-> i]
        ELSE IF rci >= a.len \/ mul(m) * cmp(a, rci, lci) > 0
             THEN holeDown([a EXCEPT !.arr[i + 1] = a.arr[lci + 1]], lci, m)
             ELSE holeDown([a EXCEPT !.arr[i + 1] = a.arr[rci + 1]], rci, m)

pushRootHoleDownToLeaf(a, m) == holeDown(a, 0, m)

\* ------------------------------------------------------------------- resize
\* shrink that never reallocates: only the length is reduced.
shrinkNoRealloc(a) ==
    IF a.len = 1
    THEN NilSlice
    ELSE Reslice(a, a.len - 1)

\* A shrink that reallocates only when the capacity is more than twice the
\* new length.
shrinkStrict(a) ==
    IF a.len = 1
    THEN NilSlice
    ELSE LET b == Reslice(a, a.len - 1) IN
         IF CapOf(b) > 2 * b.len
         THEN [isnil |-> FALSE, arr |-> Elems(b), len |-> b.len]
         ELSE b

shrink(a) ==
    IF a.len = 1
    THEN NilSlice
    ELSE LET b == Reslice(a, a.len - 1) IN
         IF CapOf(b) \div 2 >= b.len
         THEN [isnil |-> FALSE, arr |-> Elems(b), len |-> b.len]
         ELSE b

\* --------------------------------------------------------------- operations
push(a, elem, m, newcap) ==
    LET b == GoAppend(a, elem, newcap) IN bubble(b, b.len - 1, m)

\* pop without the write heap.sl[i] = displaced: the hole keeps its old value.
popLoseDisplaced(a, m) ==
    IF a.len = 0
    THEN [sl |-> a, val |-> Zero, ok |-> FALSE]
    ELSE LET down == holeDown(a, 0, m) IN
         IF down.i + 1 = down.sl.len
         THEN [sl |-> shrink(down.sl), val |-> At(a, 0), ok |-> TRUE]
         ELSE [sl |-> bubble(shrink(down.sl), down.i, m), val |-> At(a, 0), ok |-> TRUE]

\* pop with ok = true set before the emptiness test.
popOkEarly(a, m) ==
    IF a.len = 0
    THEN [sl |-> a, val |-> Zero, ok |-> TRUE]
    ELSE LET down == holeDown(a, 0, m) IN
         IF down.i + 1 = down.sl.len
         THEN [sl |-> shrink(down.sl), val |-> At(a, 0), ok |-> TRUE]
         ELSE [sl  |-> bubble([shrink(down.sl) EXCEPT
                                  !.arr[down.i + 1] = At(down.sl, down.sl.len - 1)],
                              down.i, m),
               val |-> At(a, 0), ok |-> TRUE]

\* pop: the new slice and the returned (val, ok).
\* ---- the Orderable path: T is a struct compared by its Cmp method ----
\* myCustomType of the tests: Cmp compares the keys and ignores the content.
Cmp(c1, c2) == c1.Key - c2.Key

\* the closure PushOrderable passes: PT(&heap.sl[i]).Cmp(&heap.sl[j])
cmpOrderable(a, i, j) == Cmp(At(a, i), At(a, j))

\* A sift-up that also swaps an element with a parent it compares equal to.
RECURSIVE bubbleOrderableTies(_, _, _)
bubbleOrderableTies(a, i, m) ==
    IF i > 0
    THEN LET pi == parentIndex(i) IN
         IF mul(m) * cmpOrderable(a, i, pi) > 0
         THEN a
         ELSE bubbleOrderableTies(Swap(a, i, pi), pi, m)
    ELSE a

\* bubble with the Orderable closure
RECURSIVE bubbleOrderable(_, _, _)
bubbleOrderable(a, i, m) ==
    IF i > 0
    THEN LET pi == parentIndex(i) IN
         IF mul(m) * cmpOrderable(a, i, pi) >= 0
         THEN a
         ELSE bubbleOrderable(Swap(a, i, pi), pi, m)
    ELSE a

\* push with the Orderable closure
pushOrderable(a, elem, m, newcap) ==
    LET b == GoAppend(a, elem, newcap) IN bubbleOrderable(b, b.len - 1, m)

\* A pop that leaves the displaced element at the hole without sifting it up.
popNoBubble(a, m) ==
    IF a.len = 0
    THEN [sl |-> a, val |-> Zero, ok |-> FALSE]
    ELSE LET down == holeDown(a, 0, m) IN
         IF down.i + 1 = down.sl.len
         THEN [sl |-> shrink(down.sl), val |-> At(a, 0), ok |-> TRUE]
         ELSE [sl  |-> [shrink(down.sl) EXCEPT
                           !.arr[down.i + 1] = At(down.sl, down.sl.len - 1)],
               val |-> At(a, 0), ok |-> TRUE]

pop(a, m) ==
    IF a.len = 0
    THEN [sl |-> a, val |-> Zero, ok |-> FALSE]
    ELSE LET val  == At(a, 0)
             down == pushRootHoleDownToLeaf(a, m)
             s    == down.sl
             i    == down.i
         IN  IF i + 1 = s.len
             THEN [sl |-> shrink(s), val |-> val, ok |-> TRUE]
             ELSE LET displaced == At(s, s.len - 1)
                      t == shrink(s)
                  IN  [sl  |-> bubble([t EXCEPT !.arr[i + 1] = displaced], i, m),
                       val |-> val, ok |-> TRUE]

\* Peek returning the last cell instead of the root.
PeekLast(a) ==
    IF a.len = 0
    THEN [val |-> Zero, ok |-> FALSE]
    ELSE [val |-> At(a, a.len - 1), ok |-> TRUE]

Peek(a) ==
    IF a.len = 0
    THEN [val |-> Zero, ok |-> FALSE]
    ELSE [val |-> At(a, 0), ok |-> TRUE]

\* Clearing by truncation: heap.sl = heap.sl[:0] keeps the backing array.
ClearKeepStore(a) == Reslice(a, 0)

Clear(a) == NilSlice

\* Copy: make([]T, len) then copy.
Copy(a) == [Make(a.len) EXCEPT !.arr = Elems(a)]

\* A shallow copy: the returned heap has the same slice header as the
\* original, and so the same backing array.
CopyShallow(a) == [sl |-> a, fresh |-> FALSE]

\* Copy with the store of its result: the slice returned, and whether its
\* backing array is a new one (it comes from make) or the original's.
CopyAlloc(a) == [sl |-> Copy(a), fresh |-> TRUE]

\* BreakOrContinue
Break == 0
Continue == 1

\* One call of the predicate: f(&heap.sl[j]), on cell j as it is then.
Call(a, j) == [j |-> j, elem |-> a.arr[j + 1]]

\* The scan loop with the Break test moved before the keep test: the element
\* on which the predicate breaks is dropped whatever its verdict.
RECURSIVE filterScanBreakFirst(_, _, _, _, _)
filterScanBreakFirst(a, f, j, i, first) ==
    IF j >= a.len
    THEN [sl |-> a, i |-> i, first |-> first, calls |-> <<>>]
    ELSE IF f[j + 1].boc = 0
    THEN [sl |-> a, i |-> i, first |-> first, calls |-> <<Call(a, j)>>]
    ELSE LET v      == f[j + 1]
             a1     == IF v.keep THEN [a EXCEPT !.arr[i + 1] = a.arr[j + 1]] ELSE a
             first1 == IF v.keep /\ first = 0 - 1 THEN i ELSE first
             i1     == IF v.keep THEN i + 1 ELSE i
         IN  [filterScanBreakFirst(a1, f, j + 1, i1, first1)
                 EXCEPT !.calls = <<Call(a, j)>> \o @]

\* The scan loop without the Break test: every element is visited.
RECURSIVE filterScanNoBreak(_, _, _, _, _)
filterScanNoBreak(a, f, j, i, first) ==
    IF j >= a.len
    THEN [sl |-> a, i |-> i, first |-> first, calls |-> <<>>]
    ELSE LET v      == f[j + 1]
             a1     == IF v.keep THEN [a EXCEPT !.arr[i + 1] = a.arr[j + 1]] ELSE a
             first1 == IF v.keep /\ first = 0 - 1 THEN i ELSE first
             i1     == IF v.keep THEN i + 1 ELSE i
         IN  [filterScanNoBreak(a1, f, j + 1, i1, first1)
                 EXCEPT !.calls = <<Call(a, j)>> \o @]

\* The scan loop calling the predicate on the cell it writes to (i), not on
\* the cell it reads (j).
RECURSIVE filterScanAtWrite(_, _, _, _, _)
filterScanAtWrite(a, f, j, i, first) ==
    IF j >= a.len
    THEN [sl |-> a, i |-> i, first |-> first, calls |-> <<>>]
    ELSE LET v      == f[j + 1]
             a1     == IF v.keep THEN [a EXCEPT !.arr[i + 1] = a.arr[j + 1]] ELSE a
             first1 == IF v.keep /\ first = 0 - 1 THEN i ELSE first
             i1     == IF v.keep THEN i + 1 ELSE i
         IN  IF v.boc = Break
             THEN [sl |-> a1, i |-> i1, first |-> first1, calls |-> <<Call(a, i)>>]
             ELSE [filterScanAtWrite(a1, f, j + 1, i1, first1)
                      EXCEPT !.calls = <<Call(a, i)>> \o @]

\* The scan loop of filter from visit index j on.  f is the predicate, given
\* as the verdict it returns on each call: f[j+1] = [keep, boc] for cell j.
\* calls is the log of the calls of f the loop makes, in order.
RECURSIVE filterScan(_, _, _, _, _)
filterScan(a, f, j, i, first) ==
    IF j >= a.len
    THEN [sl |-> a, i |-> i, first |-> first, calls |-> <<>>]
    ELSE LET v      == f[j + 1]
             a1     == IF v.keep THEN [a EXCEPT !.arr[i + 1] = a.arr[j + 1]] ELSE a
             first1 == IF v.keep /\ first = 0 - 1 THEN i ELSE first
             i1     == IF v.keep THEN i + 1 ELSE i
         IN  IF v.boc = Break
             THEN [sl |-> a1, i |-> i1, first |-> first1, calls |-> <<Call(a, j)>>]
             ELSE [filterScan(a1, f, j + 1, i1, first1)
                      EXCEPT !.calls = <<Call(a, j)>> \o @]

\* The re-push loop started one cell late: the first kept element is skipped.
RECURSIVE filterRepushSkipFirst(_, _, _, _)
filterRepushSkipFirst(a, j, i, m) ==
    IF j + 1 < i
    THEN filterRepushSkipFirst(push(a, a.arr[j + 2], m, a.len + 1), j + 1, i, m)
    ELSE a

\* The re-push loop run backwards: the kept elements are pushed last first.
\* The cells are read from the compacted storage c, which the pushes into
\* the same array would overwrite.
RECURSIVE repushBackwards(_, _, _, _, _)
repushBackwards(a, c, j, i, m) ==
    IF j < i
    THEN repushBackwards(push(a, c.arr[i], m, a.len + 1), c, j, i - 1, m)
    ELSE a

filterRepushBackwards(a, j, i, m) == repushBackwards(a, a, j, i, m)

\* The re-push loop of filter: cell j is read past the slice's length
\* (heap.sl[j:j+1][0]) and pushed.  The append has room, so the capacity
\* handed to it is not used.
RECURSIVE filterRepush(_, _, _, _)
filterRepush(a, j, i, m) ==
    IF j < i
    THEN filterRepush(push(a, a.arr[j + 1], m, a.len + 1), j + 1, i, m)
    ELSE a

\* A filter that re-pushes the kept elements into a new store instead of
\* the one it compacted them in: its appends allocate.
RECURSIVE repushInto(_, _, _, _, _)
repushInto(a, c, j, i, m) ==
    IF j < i
    THEN repushInto(push(a, c.arr[j + 1], m, a.len + 1), c, j + 1, i, m)
    ELSE a

filterRealloc(a, f, m) ==
    LET sc == filterScan(a, f, 0, 0, 0 - 1)
        b  == Reslice(sc.sl, sc.i)
    IN  IF sc.first # 0 - 1
        THEN repushInto([isnil |-> FALSE, arr |-> <<>>, len |-> 0], b, sc.first, sc.i, m)
        ELSE b

\* A filter that compacts the kept elements and does not re-push them.
filterCompactOnly(a, f, m) ==
    LET sc == filterScan(a, f, 0, 0, 0 - 1) IN Reslice(sc.sl, sc.i)

filter(a, f, m) ==
    LET sc == filterScan(a, f, 0, 0, 0 - 1)
        b  == Reslice(sc.sl, sc.i)
    IN  IF sc.first # 0 - 1
        THEN filterRepush(Reslice(b, sc.first), sc.first, sc.i, m)
        ELSE b

\* ------------------------------------------------------------------- inputs
Verdict(k, b) == [keep |-> k, boc |-> b]

\* The predicates Filter is called with on a heap of n elements, each given
\* by its verdicts in visiting order.  A predicate breaks at most once (at
\* call b; b = 0: never).  The code makes no call after the Break; the
\* verdicts such calls would get are (true, Continue), so that any use of
\* them would show.
Preds(n) ==
    UNION { { [j \in 1..n |->
                 Verdict(j \in K \/ (b # 0 /\ j > b),
                         IF j = b THEN Break ELSE Continue)]
              : K \in SUBSET (1..(IF b = 0 THEN n ELSE b)) }
            : b \in 0..n }

\* The capacity append may give a slice that grows by one element.
AppendCaps(a) == IF a.len < CapOf(a) THEN {CapOf(a)} ELSE GrowCaps(a.len)

NoArg == [elem |-> Zero, f |-> <<>>]
NoRet == [val |-> Zero, ok |-> FALSE, heap |-> NilSlice]

\* trace of an operation that records nothing.
NoTrace == [before |-> NilSlice, down |-> NilSlice, hole |-> 0 - 1]

\* trace of a Pop on slice a: the slice at entry, the slice as
\* pushRootHoleDownToLeaf left it and the leaf index it returned.
PopTrace(a, m) ==
    IF a.len = 0
    THEN [NoTrace EXCEPT !.before = a]
    ELSE LET d == pushRootHoleDownToLeaf(a, m) IN
         [before |-> a, down |-> d.sl, hole |-> d.i]

\* No copy made yet.
NoCopy == [heap |-> NilSlice, made |-> FALSE, alias |-> FALSE, target |-> "none"]

\* --------------------------------------------------------- the state machine
Init ==
    /\ mom \in {"Min", "Max"}
    /\ h = NilSlice
    /\ op = "Init"
    /\ arg = NoArg
    /\ ret = NoRet
    /\ ref = <<>>
    /\ pushed = <<>>
    /\ popped = <<>>
    /\ phase = "push"
    /\ trace = NoTrace
    /\ cpy = NoCopy

Ghosts == <<ref, pushed, popped, phase, cpy>>

\* Push(&heap, elem)
PushStep(elem, newcap) ==
    /\ h.len < MaxLen
    /\ h' = Normalize(push(h, elem, mom, newcap))
    /\ op' = "Push"
    /\ arg' = [NoArg EXCEPT !.elem = elem]
    /\ ret' = NoRet
    /\ trace' = NoTrace
    /\ UNCHANGED mom

DoPush ==
    /\ \E elem \in Vals : \E newcap \in AppendCaps(h) : PushStep(elem, newcap)
    /\ UNCHANGED Ghosts

\* Pop(&heap)
PopStep ==
    /\ LET r == pop(h, mom) IN
         /\ h' = Normalize(r.sl)
         /\ ret' = [NoRet EXCEPT !.val = r.val, !.ok = r.ok]
    /\ op' = "Pop"
    /\ arg' = NoArg
    /\ trace' = PopTrace(h, mom)
    /\ UNCHANGED mom

DoPop == PopStep /\ UNCHANGED Ghosts

\* Peek(&heap)
DoPeek ==
    /\ LET r == Peek(h) IN ret' = [NoRet EXCEPT !.val = r.val, !.ok = r.ok]
    /\ op' = "Peek"
    /\ arg' = NoArg
    /\ trace' = NoTrace
    /\ UNCHANGED <<mom, h>>
    /\ UNCHANGED Ghosts

\* Clear(&heap)
DoClear ==
    /\ h' = Clear(h)
    /\ op' = "Clear"
    /\ arg' = NoArg
    /\ ret' = NoRet
    /\ trace' = [NoTrace EXCEPT !.before = h]
    /\ UNCHANGED mom
    /\ UNCHANGED Ghosts

\* Copy(&heap)
DoCopy ==
    /\ ret' = [NoRet EXCEPT !.heap = Copy(h)]
    /\ op' = "Copy"
    /\ arg' = NoArg
    /\ trace' = NoTrace
    /\ UNCHANGED <<mom, h>>
    /\ UNCHANGED Ghosts

\* Filter(&heap, f)
FilterStep(f) ==
    /\ h' = Normalize(filter(h, f, mom))
    /\ op' = "Filter"
    /\ arg' = [NoArg EXCEPT !.f = f]
    /\ ret' = NoRet
    /\ trace' = NoTrace
    /\ UNCHANGED mom

DoFilter ==
    /\ \E f \in Preds(h.len) : FilterStep(f)
    /\ UNCHANGED Ghosts

Next == DoPush \/ DoPop \/ DoPeek \/ DoClear \/ DoCopy \/ DoFilter

Spec == Init /\ [][Next]_vars

\* ------------------------------------------- lockstep with a naive reference
\* The naive reference of the fuzz tests: a list kept sorted so that its
\* first element is the next one to pop (ascending for Min, descending for
\* Max).
Before(m, x, y) == IF m = "Min" THEN x < y ELSE x > y

RECURSIVE naiveHeapPush(_, _, _)
naiveHeapPush(l, v, m) ==
    IF l = <<>> \/ ~Before(m, Head(l), v)
    THEN <<v>> \o l
    ELSE <<Head(l)>> \o naiveHeapPush(Tail(l), v, m)

naiveHeapPop(l) ==
    IF l = <<>>
    THEN [l |-> l, val |-> Zero, ok |-> FALSE]
    ELSE [l |-> Tail(l), val |-> Head(l), ok |-> TRUE]

\* p is a predicate on values that never breaks: p[v] is its keep verdict.
naiveHeapFilter(l, p) == SelectSeq(l, LAMBDA v : p[v])

\* The verdicts of the value predicate p on the cells of a, in visiting order.
ValuePred(a, p) == [j \in 1..a.len |-> Verdict(p[a.arr[j]], Continue)]

RefPush ==
    /\ \E elem \in Vals : \E newcap \in AppendCaps(h) :
         /\ PushStep(elem, newcap)
         /\ ref' = naiveHeapPush(ref, elem, mom)
    /\ UNCHANGED <<pushed, popped, phase, cpy>>

RefPop ==
    /\ PopStep
    /\ ref' = naiveHeapPop(ref).l
    /\ UNCHANGED <<pushed, popped, phase, cpy>>

RefFilter ==
    /\ \E p \in [Vals -> BOOLEAN] :
         /\ FilterStep(ValuePred(h, p))
         /\ ref' = naiveHeapFilter(ref, p)
    /\ UNCHANGED <<pushed, popped, phase, cpy>>

NextRef == RefPush \/ RefPop \/ RefFilter

SpecRef == Init /\ [][NextRef]_vars

\* ------------------------------------------------- pushes, then pops to empty
DrainPush ==
    /\ phase = "push"
    /\ \E elem \in Vals : \E newcap \in AppendCaps(h) :
         /\ PushStep(elem, newcap)
         /\ pushed' = Append(pushed, elem)
    /\ UNCHANGED <<ref, popped, phase, cpy>>

DrainPop ==
    /\ phase \in {"push", "pop"}
    /\ PopStep
    /\ IF ret'.ok
       THEN popped' = Append(popped, ret'.val) /\ phase' = "pop"
       ELSE popped' = popped /\ phase' = "done"
    /\ UNCHANGED <<ref, pushed, cpy>>

NextDrain == DrainPush \/ DrainPop

SpecDrain == Init /\ [][NextDrain]_vars

\* ------------------------------------------------- a heap and its copy
\* The copy scenario runs operations on a heap (h) and on the heap Copy
\* returned (cpy.heap).  cpy.alias tells whether the two slices still have
\* the same backing array; while they do, what an operation writes into the
\* array through one slice is seen through the other.

\* The slice an operation on target t works on, and the other one.
Sl(t) == IF t = "orig" THEN h ELSE cpy.heap
Other(t) == IF t = "orig" THEN cpy.heap ELSE h

\* The slice of target t with the cells of its backing array as they are:
\* beyond its own length an aliased array holds the other slice's cells.
TrueSl(t) ==
    IF cpy.alias
    THEN [Sl(t) EXCEPT !.arr =
            [k \in 1..Len(Sl(t).arr) |->
                IF k <= Sl(t).len \/ k > Len(Other(t).arr)
                THEN Sl(t).arr[k]
                ELSE Other(t).arr[k]]]
    ELSE Sl(t)

\* x1, the slice an operation made of x, still has x's backing array: it was
\* neither reallocated (append growth, shrink's make) nor set to nil.
SameStore(x, x1) == ~x.isnil /\ ~x1.isnil /\ CapOf(x1) = CapOf(x)

\* The backing array of x after pop(x, m): pop's in-place result, or, when
\* shrink moved the elements to a new array, the array as the hole descent
\* left it.
StoreAfterPop(x, m) ==
    IF x.len = 0
    THEN x.arr
    ELSE IF SameStore(x, pop(x, m).sl)
         THEN pop(x, m).sl.arr
         ELSE pushRootHoleDownToLeaf(x, m).sl.arr

\* The backing array of x after push(x, elem, m, newcap): written in place
\* when append had room, left alone when append allocated a new array.
StoreAfterPush(x, elem, m, newcap) ==
    IF x.len < CapOf(x) THEN push(x, elem, m, newcap).arr ELSE x.arr

\* An operation on target t turned the slice x into x1 and left x's backing
\* array holding the cells store.
Commit(t, x, x1, store) ==
    LET o  == Other(t)
        o1 == IF cpy.alias
              THEN Normalize([o EXCEPT !.arr =
                      [k \in 1..Len(o.arr) |->
                          IF k <= Len(store) THEN store[k] ELSE o.arr[k]]])
              ELSE o
        c1 == [cpy EXCEPT !.alias = cpy.alias /\ SameStore(x, x1), !.target = t]
    IN  IF t = "orig"
        THEN h' = Normalize(x1) /\ cpy' = [c1 EXCEPT !.heap = o1]
        ELSE h' = o1 /\ cpy' = [c1 EXCEPT !.heap = Normalize(x1)]

\* The heaps an operation may be applied to: the copy once it exists.
Targets == IF cpy.made THEN {"orig", "copy"} ELSE {"orig"}

CopyFrame ==
    /\ arg' = NoArg
    /\ ret' = NoRet
    /\ trace' = NoTrace
    /\ UNCHANGED <<mom, ref, pushed, popped, phase>>

\* Push(&heap, elem) on either heap
CPush ==
    /\ \E t \in Targets : \E elem \in CopyVals :
         /\ Sl(t).len < MaxCopyLen
         /\ \E newcap \in AppendCaps(Sl(t)) :
              Commit(t, TrueSl(t), push(TrueSl(t), elem, mom, newcap),
                     StoreAfterPush(TrueSl(t), elem, mom, newcap))
    /\ op' = "Push"
    /\ CopyFrame

\* Pop(&heap) on either heap
CPop ==
    /\ \E t \in Targets :
         Commit(t, TrueSl(t), pop(TrueSl(t), mom).sl, StoreAfterPop(TrueSl(t), mom))
    /\ op' = "Pop"
    /\ CopyFrame

\* Filter(&heap, f) on either heap; filter works in place
CFilter ==
    /\ \E t \in Targets : \E f \in Preds(Sl(t).len) :
         Commit(t, TrueSl(t), filter(TrueSl(t), f, mom), filter(TrueSl(t), f, mom).arr)
    /\ op' = "Filter"
    /\ CopyFrame

\* Clear(&heap) on either heap
CClear ==
    /\ \E t \in Targets : Commit(t, TrueSl(t), Clear(TrueSl(t)), TrueSl(t).arr)
    /\ op' = "Clear"
    /\ CopyFrame

\* cp := Copy(&heap), once
CCopy ==
    /\ ~cpy.made
    /\ LET c == CopyAlloc(h) IN
         cpy' = [heap |-> c.sl, made |-> TRUE,
                 alias |-> ~c.fresh /\ ~c.sl.isnil, target |-> "none"]
    /\ op' = "Copy"
    /\ CopyFrame
    /\ UNCHANGED h

NextCopy == CPush \/ CPop \/ CFilter \/ CClear \/ CCopy

SpecCopy == Init /\ [][NextCopy]_vars

\* ------------------------------------------------------------ FromSlice
\* FromSlice takes the input sequence as the heap's storage and heapifies it
\* bottom-up: from the last internal node down to the root, each node is
\* sifted down into its subtree.  An empty input gives the empty heap.

\* A sift-down of one level only.
siftDownOnce(a, i, m) ==
    LET lci == leftChildIndex(i)
        rci == rightChildIndex(i)
        c   == IF rci < a.len /\ mul(m) * cmp(a, rci, lci) < 0 THEN rci ELSE lci
    IN  IF lci < a.len /\ mul(m) * cmp(a, c, i) < 0 THEN Swap(a, i, c) ELSE a

RECURSIVE siftDown(_, _, _)
siftDown(a, i, m) ==
    LET lci == leftChildIndex(i)
        rci == rightChildIndex(i)
        c   == IF rci < a.len /\ mul(m) * cmp(a, rci, lci) < 0 THEN rci ELSE lci
    IN  IF lci >= a.len
        THEN a
        ELSE IF mul(m) * cmp(a, c, i) < 0
             THEN siftDown(Swap(a, i, c), c, m)
             ELSE a

\* A heapify that leaves the root where it is.
RECURSIVE heapifySkipRoot(_, _, _)
heapifySkipRoot(a, i, m) ==
    IF i < 1 THEN a ELSE heapifySkipRoot(siftDown(a, i, m), i - 1, m)

RECURSIVE heapify(_, _, _)
heapify(a, i, m) ==
    IF i < 0 THEN a ELSE heapify(siftDown(a, i, m), i - 1, m)

FromSlice(input, m) ==
    IF input.len = 0
    THEN NilSlice
    ELSE heapify(input, (input.len \div 2) - 1, m)

\* The input sequences: nil, and every sequence of up to MaxLen elements.
FromInputs ==
    {NilSlice} \cup
    {[isnil |-> FALSE, arr |-> s, len |-> Len(s)] :
        s \in UNION {[1..n -> Vals] : n \in 0..MaxLen}}

\* FromSlice(&heap, input) on the zero-value heap
DoFromSlice ==
    /\ op = "Init"
    /\ \E input \in FromInputs :
         /\ h' = FromSlice(input, mom)
         /\ pushed' = Elems(input)
         /\ trace' = [NoTrace EXCEPT !.before = input]
    /\ op' = "FromSlice"
    /\ arg' = NoArg
    /\ ret' = NoRet
    /\ phase' = "pop"
    /\ UNCHANGED <<mom, ref, popped, cpy>>

NextFromSlice == DoFromSlice \/ DrainPop

SpecFromSlice == Init /\ [][NextFromSlice]_vars

\* ------------------------------------------------------------- deep Pop
\* Pushes and Pops on heaps of up to MaxDeepLen elements, to reach Pops
\* whose displaced element rises from the hole.  append grows to the
\* smallest or to the largest capacity of GrowCaps.

DeepCaps(a) ==
    IF a.len < CapOf(a) THEN {CapOf(a)} ELSE {a.len + 1, 2 * a.len + 2}

DeepPush ==
    /\ h.len < MaxDeepLen
    /\ \E elem \in DeepVals : \E newcap \in DeepCaps(h) :
         /\ h' = Normalize(push(h, elem, mom, newcap))
         /\ arg' = [NoArg EXCEPT !.elem = elem]
    /\ op' = "Push"
    /\ ret' = NoRet
    /\ trace' = NoTrace
    /\ UNCHANGED mom
    /\ UNCHANGED Ghosts

DeepPop ==
    /\ PopStep
    /\ UNCHANGED Ghosts

NextDeep == DeepPush \/ DeepPop

SpecDeep == Init /\ [][NextDeep]_vars

\* --------------------------------------------------------- keyed pushes
\* PushOrderable of elements [Key, Content] onto the zero-value heap; the
\* content of an element is the number of elements pushed before it.  append
\* grows the storage to exactly the length needed.

DoPushOrderable ==
    /\ h.len < MaxKeyedLen
    /\ \E key \in Keys :
         LET elem == [Key |-> key, Content |-> h.len] IN
           /\ h' = pushOrderable(h, elem, mom, h.len + 1)
           /\ arg' = [NoArg EXCEPT !.elem = elem]
    /\ op' = "PushOrderable"
    /\ ret' = NoRet
    /\ trace' = NoTrace
    /\ UNCHANGED mom
    /\ UNCHANGED Ghosts

NextKeyed == DoPushOrderable

SpecKeyed == Init /\ [][NextKeyed]_vars

\* ---------------------------------------------------------- deep Filter
\* Pushes onto the zero-value heap up to MaxFilterLen elements, and Filter
\* on the heap they build.  append grows the storage to exactly the length
\* needed; filter works in place whatever the capacity.

FPush ==
    /\ op # "Filter"
    /\ h.len < MaxFilterLen
    /\ \E elem \in FilterVals :
         /\ h' = Normalize(push(h, elem, mom, h.len + 1))
         /\ arg' = [NoArg EXCEPT !.elem = elem]
    /\ op' = "Push"
    /\ ret' = NoRet
    /\ trace' = NoTrace
    /\ UNCHANGED mom
    /\ UNCHANGED Ghosts

FFilter ==
    /\ op # "Filter"
    /\ \E f \in Preds(h.len) : FilterStep(f)
    /\ UNCHANGED Ghosts

NextFilter == FPush \/ FFilter

SpecFilter == Init /\ [][NextFilter]_vars

\* ----------------------------------------------------------- comparison
\* The product mom.mul()*cmp(i, j) of bubble and pushRootHoleDownToLeaf, on
\* machine integers of IntBits bits, for every value r the comparator
\* returns (an Orderable's Cmp may return any int).

MinInt == 0 - 2^(IntBits - 1)
MaxInt == 2^(IntBits - 1) - 1

\* Two's-complement wrap-around of an integer result.
Wrap(x) == ((x - MinInt) % 2^IntBits) + MinInt

\* mom.mul()*cmp(i, j), with r the value the call cmp(i, j) returned
polarityCmp(m, r) == Wrap(mul(m) * r)

InitCmp ==
    /\ mom \in {"Min", "Max"}
    /\ h = NilSlice
    /\ op = "Init"
    /\ arg \in {[NoArg EXCEPT !.elem = r] : r \in MinInt..MaxInt}
    /\ ret = NoRet
    /\ ref = <<>>
    /\ pushed = <<>>
    /\ popped = <<>>
    /\ phase = "push"
    /\ trace = NoTrace
    /\ cpy = NoCopy

\* One comparison of bubble: the product, and whether the loop stops on it.
DoCmp ==
    /\ op = "Init"
    /\ op' = "Cmp"
    /\ ret' = [NoRet EXCEPT !.val = polarityCmp(mom, arg.elem),
                            !.ok  = polarityCmp(mom, arg.elem) >= 0]
    /\ UNCHANGED <<mom, h, arg, trace>>
    /\ UNCHANGED Ghosts

NextCmp == DoCmp

SpecCmp == InitCmp /\ [][NextCmp]_vars

\* -------------------------------------------------------------- duality
\* The same operations run on the heap h of polarity mom and on a second
\* heap (cpy.heap) of the other polarity that is pushed the negated values;
\* Filter gets the predicate composed with negation, which returns on each
\* call the verdict the predicate returns on h.  append makes the same
\* choice of capacity for both.

Opposite(m) == IF m = "Min" THEN "Max" ELSE "Min"

DualPush ==
    /\ \E elem \in Vals : \E newcap \in AppendCaps(h) :
         /\ PushStep(elem, newcap)
         /\ cpy' = [cpy EXCEPT !.heap =
                      Normalize(push(cpy.heap, 0 - elem, Opposite(mom), newcap))]
    /\ UNCHANGED <<ref, pushed, popped, phase>>

DualPop ==
    /\ PopStep
    /\ cpy' = [cpy EXCEPT !.heap = Normalize(pop(cpy.heap, Opposite(mom)).sl)]
    /\ UNCHANGED <<ref, pushed, popped, phase>>

DualFilter ==
    /\ \E f \in Preds(h.len) :
         /\ FilterStep(f)
         /\ cpy' = [cpy EXCEPT !.heap = Normalize(filter(cpy.heap, f, Opposite(mom)))]
    /\ UNCHANGED <<ref, pushed, popped, phase>>

NextDual == DualPush \/ DualPop \/ DualFilter

SpecDual == Init /\ [][NextDual]_vars

\* ---------------------------------------------------------------- loops
\* Push, Pop and Filter run iteration by iteration.  phase is the loop the
\* running call is in ("idle": no call is running) and trace its local
\* variables: the sift index (hole), filter's j, i and first, and where
\* bubble returns to (back).  h is heap.sl as the loops change it.

Frame(hole, j, i, first, back) ==
    [before |-> NilSlice, down |-> NilSlice, hole |-> hole,
     j |-> j, i |-> i, first |-> first, back |-> back]

NoFrame == Frame(0 - 1, 0 - 1, 0 - 1, 0 - 1, "idle")

\* An iteration of bubble's loop that neither swaps nor moves to the parent.
bubbleIterSpin(a, i, m) ==
    IF i > 0
    THEN IF mul(m) * cmp(a, i, parentIndex(i)) >= 0
         THEN [sl |-> a, i |-> i, done |-> TRUE]
         ELSE [sl |-> a, i |-> i, done |-> FALSE]
    ELSE [sl |-> a, i |-> i, done |-> TRUE]

\* One iteration of bubble's loop at index i; done: the loop is left.
bubbleIter(a, i, m) ==
    IF i > 0
    THEN IF mul(m) * cmp(a, i, parentIndex(i)) >= 0
         THEN [sl |-> a, i |-> i, done |-> TRUE]
         ELSE [sl |-> Swap(a, i, parentIndex(i)), i |-> parentIndex(i), done |-> FALSE]
    ELSE [sl |-> a, i |-> i, done |-> TRUE]

\* One iteration of pushRootHoleDownToLeaf's loop with the hole at i.
holeIter(a, i, m) ==
    LET lci == leftChildIndex(i)
        rci == rightChildIndex(i)
    IN  IF lci >= a.len
        THEN [sl |-> a, i |-> i, done |-> TRUE]
        ELSE IF rci >= a.len \/ mul(m) * cmp(a, rci, lci) > 0
             THEN [sl |-> [a EXCEPT !.arr[i + 1] = a.arr[lci + 1]], i |-> lci, done |-> FALSE]
             ELSE [sl |-> [a EXCEPT !.arr[i + 1] = a.arr[rci + 1]], i |-> rci, done |-> FALSE]

\* One iteration of filter's scan loop; done: the loop is left (j reached
\* the length, or the predicate signalled Break).
scanIter(a, f, j, i, first) ==
    IF j >= a.len
    THEN [sl |-> a, j |-> j, i |-> i, first |-> first, done |-> TRUE]
    ELSE LET v      == f[j + 1]
             a1     == IF v.keep THEN [a EXCEPT !.arr[i + 1] = a.arr[j + 1]] ELSE a
             first1 == IF v.keep /\ first = 0 - 1 THEN i ELSE first
             i1     == IF v.keep THEN i + 1 ELSE i
         IN  IF v.boc = Break
             THEN [sl |-> a1, j |-> j, i |-> i1, first |-> first1, done |-> TRUE]
             ELSE [sl |-> a1, j |-> j + 1, i |-> i1, first |-> first1, done |-> FALSE]

InitLoop ==
    /\ mom \in {"Min", "Max"}
    /\ h = NilSlice
    /\ op = "Init"
    /\ arg = NoArg
    /\ ret = NoRet
    /\ ref = <<>>
    /\ pushed = <<>>
    /\ popped = <<>>
    /\ phase = "idle"
    /\ trace = NoFrame
    /\ cpy = NoCopy

\* Push(&heap, elem) is called: the append, then bubble from the last index
CallPush ==
    /\ phase = "idle"
    /\ h.len < MaxLoopLen
    /\ \E elem \in LoopVals : \E newcap \in DeepCaps(h) :
         /\ h' = GoAppend(h, elem, newcap)
         /\ arg' = [NoArg EXCEPT !.elem = elem]
    /\ op' = "Push"
    /\ ret' = NoRet
    /\ phase' = "bubble"
    /\ trace' = Frame(h.len, 0 - 1, 0 - 1, 0 - 1, "idle")
    /\ UNCHANGED <<mom, ref, pushed, popped, cpy>>

\* an iteration of bubble; when the loop is left, bubble returns to the
\* call of Push or Pop, which returns, or to filter's re-push loop
BubbleStep ==
    /\ phase = "bubble"
    /\ LET r == bubbleIter(h, trace.hole, mom) IN
         IF r.done
         THEN /\ phase' = trace.back
              /\ h' = IF trace.back = "idle" THEN Normalize(h) ELSE h
              /\ trace' = IF trace.back = "idle" THEN NoFrame ELSE trace
         ELSE /\ phase' = phase
              /\ h' = r.sl
              /\ trace' = [trace EXCEPT !.hole = r.i]
    /\ UNCHANGED <<mom, op, arg, ret, ref, pushed, popped, cpy>>

\* Pop(&heap) is called: it returns at once on an empty heap, else saves
\* the root and starts the hole descent
CallPop ==
    /\ phase = "idle"
    /\ op' = "Pop"
    /\ arg' = NoArg
    /\ IF h.len = 0
       THEN /\ ret' = NoRet
            /\ phase' = "idle"
            /\ trace' = NoFrame
       ELSE /\ ret' = [NoRet EXCEPT !.val = At(h, 0), !.ok = TRUE]
            /\ phase' = "descend"
            /\ trace' = Frame(0, 0 - 1, 0 - 1, 0 - 1, "idle")
    /\ UNCHANGED <<mom, h, ref, pushed, popped, cpy>>

\* an iteration of the hole descent; when the loop is left, the rest of pop:
\* shrink, and either return or put the displaced element and bubble
DescendStep ==
    /\ phase = "descend"
    /\ LET r == holeIter(h, trace.hole, mom) IN
         IF ~r.done
         THEN /\ phase' = phase
              /\ h' = r.sl
              /\ trace' = [trace EXCEPT !.hole = r.i]
         ELSE IF r.i + 1 = h.len
              THEN /\ h' = Normalize(shrink(h))
                   /\ phase' = "idle"
                   /\ trace' = NoFrame
              ELSE /\ h' = [shrink(h) EXCEPT !.arr[r.i + 1] = At(h, h.len - 1)]
                   /\ phase' = "bubble"
                   /\ trace' = trace
    /\ UNCHANGED <<mom, op, arg, ret, ref, pushed, popped, cpy>>

\* Filter(&heap, f) is called: the scan starts at j = 0
CallFilter ==
    /\ phase = "idle"
    /\ \E f \in Preds(h.len) : arg' = [NoArg EXCEPT !.f = f]
    /\ op' = "Filter"
    /\ ret' = NoRet
    /\ phase' = "scan"
    /\ trace' = Frame(0 - 1, 0, 0, 0 - 1, "repush")
    /\ UNCHANGED <<mom, h, ref, pushed, popped, cpy>>

\* an iteration of the scan; when the loop is left, the storage is cut to i
\* and, if anything was kept, to first, and the re-push loop starts there
ScanStep ==
    /\ phase = "scan"
    /\ LET r == scanIter(h, arg.f, trace.j, trace.i, trace.first) IN
         IF ~r.done
         THEN /\ phase' = phase
              /\ h' = r.sl
              /\ trace' = [trace EXCEPT !.j = r.j, !.i = r.i, !.first = r.first]
         ELSE IF r.first # 0 - 1
              THEN /\ h' = Reslice(Reslice(r.sl, r.i), r.first)
                   /\ phase' = "repush"
                   /\ trace' = [trace EXCEPT !.j = r.first, !.i = r.i, !.first = r.first]
              ELSE /\ h' = Normalize(Reslice(r.sl, r.i))
                   /\ phase' = "idle"
                   /\ trace' = NoFrame
    /\ UNCHANGED <<mom, op, arg, ret, ref, pushed, popped, cpy>>

\* an iteration of the re-push loop: push of the cell j, whose bubble comes
\* back here; when j reaches i, filter returns
RepushStep ==
    /\ phase = "repush"
    /\ IF trace.j < trace.i
       THEN /\ \E newcap \in AppendCaps(h) : h' = GoAppend(h, h.arr[trace.j + 1], newcap)
            /\ phase' = "bubble"
            /\ trace' = [trace EXCEPT !.hole = h.len, !.j = trace.j + 1]
       ELSE /\ h' = Normalize(h)
            /\ phase' = "idle"
            /\ trace' = NoFrame
    /\ UNCHANGED <<mom, op, arg, ret, ref, pushed, popped, cpy>>

\* The steps of a running call.
Running == BubbleStep \/ DescendStep \/ ScanStep \/ RepushStep

NextLoop == CallPush \/ CallPop \/ CallFilter \/ BubbleStep \/ DescendStep
               \/ ScanStep \/ RepushStep

\* A call that has started runs on: the container is single-threaded and
\* synchronous, nothing suspends an operation.
SpecLoop == InitLoop /\ [][NextLoop]_vars /\ WF_vars(Running)

\* =================================================================== claims
\* The multiset of the elements of a sequence.
SeqBag(s) == [v \in {s[k] : k \in DOMAIN s} |-> Cardinality({k \in DOMAIN s : s[k] = v})]

\* x may stand above y in a heap of polarity m (x <= y for Min, x >= y for Max).
NotWorse(m, x, y) == IF m = "Min" THEN x <= y ELSE x >= y

\* C1: in every state reachable from the zero-value heap by Push, Pop,
\* Filter and Clear, every cell i >= 1 is not better than its parent
\* (i-1)/2: parent <= child for Min, parent >= child for Max.
C1_HeapProperty ==
    \A i \in 1..(h.len - 1) : NotWorse(mom, At(h, (i - 1) \div 2), At(h, i))

\* A heap of three or more elements, not all equal, left by a Filter that
\* removed something.
C1_Witness ==
    /\ op = "Filter"
    /\ h.len >= 3
    /\ h.len < Len(arg.f)
    /\ At(h, 0) # At(h, h.len - 1)

Monotone(s, m) == \A k \in 1..(Len(s) - 1) : NotWorse(m, s[k], s[k + 1])

\* C3: pushes onto an empty heap followed by Pops until found=false: the
\* popped values come out non-decreasing (Min) or non-increasing (Max), and
\* when Pop first reports found=false exactly the pushed multiset has been
\* popped, one successful Pop per Push.
C3_DrainSorted ==
    /\ Monotone(popped, mom)
    /\ Len(popped) <= Len(pushed)
    /\ phase = "done" =>
          /\ Len(popped) = Len(pushed)
          /\ SeqBag(popped) = SeqBag(pushed)

\* A completed drain of at least three pushes with a duplicate value, pushed
\* in an order that is not the pop order.
C3_Witness ==
    /\ phase = "done"
    /\ Len(pushed) >= 3
    /\ pushed # popped
    /\ \E i, j \in 1..Len(pushed) : i < j /\ pushed[i] = pushed[j]

\* C4: Peek returns (storage[0], true) on a non-empty heap, where storage[0]
\* is the minimum (Min) or maximum (Max) of the elements held and is what an
\* immediately following Pop returns; (zero, false) on an empty heap; and it
\* leaves contents, length and capacity unchanged.
C4_Peek ==
    [][/\ op' = "Peek" =>
            /\ h' = h
            /\ IF h.len = 0
               THEN ~ret'.ok /\ ret'.val = Zero
               ELSE /\ ret'.ok
                    /\ ret'.val = h.arr[1]
                    /\ \A k \in 1..h.len : NotWorse(mom, ret'.val, h.arr[k])
       /\ (op = "Peek" /\ ret.ok /\ op' = "Pop") =>
            (ret'.ok /\ ret'.val = ret.val)]_vars

\* A Peek of a heap of three or more elements that are not all equal.
C4_Witness ==
    /\ op = "Peek"
    /\ ret.ok
    /\ h.len >= 3
    /\ \E k \in 1..h.len : h.arr[k] # ret.val

\* C5: Pop on an empty heap (zero value, or emptied by Pop, Clear or Filter)
\* returns (zero, false) and leaves the heap as it was; a following Push
\* then yields the one-element heap.
C5_PopEmpty ==
    [][/\ (op' = "Pop" /\ h.len = 0) =>
            (~ret'.ok /\ ret'.val = Zero /\ h' = h)
       /\ (op = "Pop" /\ ~ret.ok /\ op' = "Push") =>
            (h'.len = 1 /\ At(h', 0) = arg'.elem)]_vars

\* A failed Pop on a heap that a Filter emptied (empty, but not nil).
C5_Witness ==
    /\ op = "Pop"
    /\ ~ret.ok
    /\ h.len = 0
    /\ ~h.isnil

\* C6: empty heaps are backed by nil slices: in every state reached by Push,
\* Pop, Clear and Filter, and for every heap Copy returns, length 0 implies
\* a nil backing slice.
C6_EmptyIsNil ==
    /\ h.len = 0 => h.isnil
    /\ (op = "Copy" /\ ret.heap.len = 0) => ret.heap.isnil

\* The predicate f drops every element and never breaks.
DropsAll(f) == \A j \in 1..Len(f) : ~f[j].keep /\ f[j].boc = Continue

\* C7: Filter with a predicate returning (false, Continue) for every element
\* of a heap of size >= 1 leaves length 0 and a nil backing slice.
C7_FilterToEmptyIsNil ==
    (op = "Filter" /\ Len(arg.f) >= 1 /\ DropsAll(arg.f)) => (h.len = 0 /\ h.isnil)

\* C8: after a successful Pop that leaves the heap non-empty, the capacity of
\* the backing slice is at most twice its length.
C8_PopCapacityBound ==
    (op = "Pop" /\ ret.ok /\ h.len > 0) => CapOf(h) <= 2 * h.len

\* A successful Pop that left two or more elements and spare capacity.
C8_Witness ==
    /\ op = "Pop"
    /\ ret.ok
    /\ h.len >= 2
    /\ CapOf(h) > h.len

\* C9: after a Filter that removed elements and left the heap non-empty, the
\* capacity of the backing slice is at most twice its length.
C9_FilterCompact ==
    (op = "Filter" /\ h.len > 0 /\ h.len < Len(arg.f)) => CapOf(h) <= 2 * h.len

\* The calls the predicate f receives: every index up to and including the
\* first one on which it breaks.
Visited(f) == {j \in 1..Len(f) : \A k \in 1..(j - 1) : f[k].boc # Break}

\* The multiset of the cells of a at the (1-based) indices J.
IdxBag(a, J) == [v \in {a.arr[j] : j \in J} |-> Cardinality({j \in J : a.arr[j] = v})]

\* C10: after Filter the heap holds exactly the visited elements whose
\* verdict was keep=true: visited elements with keep=false are removed, the
\* element on which the predicate breaks stays iff its own verdict is keep,
\* and the elements after it are removed.
C10_FilterKeepsVisitedKept ==
    [][op' = "Filter" =>
         SeqBag(Elems(h')) = IdxBag(h, {j \in Visited(arg'.f) : arg'.f[j].keep})]_vars

\* A Filter whose predicate dropped a visited element and then broke, with
\* keep=true, before the last element.
C10_Witness ==
    /\ op = "Filter"
    /\ h.len >= 2
    /\ \E b \in 2..(Len(arg.f) - 1) :
         /\ arg.f[b].boc = Break
         /\ arg.f[b].keep
         /\ \E j \in 1..(b - 1) : ~arg.f[j].keep

\* The (1-based) call on which the predicate f signals Break; 0 if it never
\* does.
BreakAt(f) ==
    IF \E j \in 1..Len(f) : f[j].boc = Break
    THEN CHOOSE j \in 1..Len(f) :
            f[j].boc = Break /\ \A k \in 1..(j - 1) : f[k].boc # Break
    ELSE 0

\* C11 as stated: when the predicate signals Break, the element it broke on
\* and every later element are dropped whatever their keep verdict: the heap
\* holds only the kept elements visited before the break point.
C11_BreakDropsBreakPoint ==
    [][(op' = "Filter" /\ BreakAt(arg'.f) > 0) =>
         SeqBag(Elems(h')) =
            IdxBag(h, {j \in 1..(BreakAt(arg'.f) - 1) : arg'.f[j].keep})]_vars

\* C11 amended: when the predicate signals Break, every element after the
\* break point is dropped whatever verdict it would get, and the element the
\* predicate broke on is dropped iff its own verdict is keep=false: the heap
\* holds the kept elements up to and including the break point.
C11_BreakDropsLater ==
    [][(op' = "Filter" /\ BreakAt(arg'.f) > 0) =>
         /\ SeqBag(Elems(h')) =
               IdxBag(h, {j \in 1..BreakAt(arg'.f) : arg'.f[j].keep})
         /\ h'.len = Cardinality({j \in 1..BreakAt(arg'.f) : arg'.f[j].keep})]_vars

\* A Filter that broke with keep=true on its first call, on a heap of three
\* or more elements: only the element it broke on is left.
C11_Witness ==
    /\ op = "Filter"
    /\ Len(arg.f) >= 3
    /\ BreakAt(arg.f) = 1
    /\ arg.f[1].keep
    /\ h.len = 1

\* The predicate f keeps every element and never breaks.
KeepsAll(f) == \A j \in 1..Len(f) : f[j].keep /\ f[j].boc = Continue

\* C12: Filter with a predicate returning (true, Continue) for every element
\* leaves the storage position-for-position identical (hence the multiset
\* and the heap property unchanged).
C12_FilterIdentity ==
    [][(op' = "Filter" /\ KeepsAll(arg'.f)) =>
         /\ h'.len = h.len
         /\ \A k \in 1..h.len : h'.arr[k] = h.arr[k]
         /\ \A i \in 1..(h'.len - 1) :
               NotWorse(mom, At(h', (i - 1) \div 2), At(h', i))]_vars

\* A keep-everything Filter on a full heap whose elements are not all equal.
C12_Witness ==
    /\ op = "Filter"
    /\ Len(arg.f) = MaxLen
    /\ KeepsAll(arg.f)
    /\ h.len = MaxLen
    /\ \E k \in 1..h.len : h.arr[k] # h.arr[1]

\* C13: Copy returns a heap of the same length holding equal elements at the
\* same indices, with capacity equal to that length, and leaves the original
\* alone; afterwards a Push, Pop, Filter or Clear on either heap leaves the
\* other heap's contents and length unchanged.
C13_CopyIndependent ==
    [][/\ op' = "Copy" =>
            /\ cpy'.heap.len = h.len
            /\ \A k \in 1..h.len : cpy'.heap.arr[k] = h.arr[k]
            /\ CapOf(cpy'.heap) = h.len
            /\ h' = h
       /\ (cpy.made /\ cpy'.target = "orig") => Elems(cpy'.heap) = Elems(cpy.heap)
       /\ (cpy.made /\ cpy'.target = "copy") => Elems(h') = Elems(h)]_vars

\* After a copy of a heap of two or more elements, an operation on the
\* original has made the two heaps differ.
C13_Witness ==
    /\ cpy.made
    /\ cpy.target = "orig"
    /\ cpy.heap.len >= 2
    /\ h.len >= 1
    /\ Elems(h) # Elems(cpy.heap)

\* C14: Clear leaves the heap in the canonical empty representation (length
\* 0, nil storage) whatever its length and capacity were; afterwards Len is
\* 0, Peek and Pop find nothing, and a Push gives what it gives on a
\* zero-value heap.
C14_Clear ==
    op = "Clear" =>
        /\ h.isnil
        /\ LenOf(h) = 0
        /\ CapOf(h) = 0
        /\ ~Peek(h).ok
        /\ ~pop(h, mom).ok
        /\ pop(h, mom).sl = h
        /\ \A elem \in Vals : \A newcap \in AppendCaps(NilSlice) :
              /\ newcap \in AppendCaps(h)
              /\ push(h, elem, mom, newcap) = push(NilSlice, elem, mom, newcap)
              /\ Elems(push(h, elem, mom, newcap)) = <<elem>>

\* Clear has acted on a heap of three or more elements with spare capacity.
C14_Witness ==
    /\ op = "Clear"
    /\ trace.before.len >= 3
    /\ CapOf(trace.before) > trace.before.len
    /\ h.len = 0

\* s with x inserted before the first element that x may stand above.
RECURSIVE InsertSorted(_, _, _)
InsertSorted(s, x, m) ==
    IF s = <<>>
    THEN <<x>>
    ELSE IF NotWorse(m, x, Head(s))
         THEN <<x>> \o s
         ELSE <<Head(s)>> \o InsertSorted(Tail(s), x, m)

\* s sorted: ascending for Min, descending for Max.
RECURSIVE Sorted(_, _)
Sorted(s, m) ==
    IF s = <<>> THEN <<>> ELSE InsertSorted(Sorted(Tail(s), m), Head(s), m)

\* C15: FromSlice followed by Pops until the heap is empty: the k-th Pop
\* returns, with found=true, the k-th element of the input sorted ascending
\* (Min) or descending (Max), and Pop reports found=false only after every
\* element has come out.
C15_FromSliceDrainSorted ==
    /\ Len(popped) <= Len(pushed)
    /\ popped = SubSeq(Sorted(pushed, mom), 1, Len(popped))
    /\ (op = "Pop" /\ ~ret.ok) => popped = Sorted(pushed, mom)
    /\ (op = "Pop" /\ ret.ok) => ret.val = popped[Len(popped)]

\* A completed drain of a heap built from an unsorted input of MaxLen
\* elements with a duplicate value.
C15_Witness ==
    /\ phase = "done"
    /\ Len(pushed) = MaxLen
    /\ pushed # popped
    /\ Len(popped) = MaxLen
    /\ \E i, j \in 1..Len(pushed) : i < j /\ pushed[i] = pushed[j]
    /\ \E i, j \in 1..Len(pushed) : pushed[i] # pushed[j]

\* C16: the storage FromSlice produces satisfies the heap property for the
\* heap's polarity and holds exactly the input's multiset; on an input of
\* length zero the heap's storage is nil.
C16_FromSliceHeap ==
    op = "FromSlice" =>
        /\ \A i \in 1..(h.len - 1) : NotWorse(mom, At(h, parentIndex(i)), At(h, i))
        /\ h.len = trace.before.len
        /\ SeqBag(Elems(h)) = SeqBag(Elems(trace.before))
        /\ trace.before.len = 0 => h.isnil

\* FromSlice has rearranged an input of MaxLen elements whose last element
\* belongs at the root.
C16_Witness ==
    /\ op = "FromSlice"
    /\ h.len = MaxLen
    /\ Elems(h) # Elems(trace.before)
    /\ At(h, 0) = At(trace.before, MaxLen - 1)
    /\ At(trace.before, 0) # At(h, 0)

\* The indices from the root to i.
RECURSIVE Path(_)
Path(i) == IF i <= 0 THEN {0} ELSE {i} \cup Path(parentIndex(i))

\* The nodes the hole of the last Pop left, and for each the child it went to.
HoleSteps == IF trace.hole < 0 THEN {} ELSE Path(trace.hole) \ {trace.hole}
HoleNext(p) == CHOOSE c \in Path(trace.hole) : c > 0 /\ parentIndex(c) = p

\* polarity_cmp of the cells i and j of the storage as Pop found it.
PolCmp(i, j) == mul(mom) * cmp(trace.before, i, j)

\* C17 as stated: where both children of the hole exist, the hole moves to
\* the right child, and the right child's value moves up, whenever
\* polarity_cmp(right, left) >= 0.
C17_RightWhenGeq ==
    (op = "Pop" /\ ret.ok) =>
        \A p \in HoleSteps :
            (/\ rightChildIndex(p) < trace.before.len
             /\ PolCmp(rightChildIndex(p), leftChildIndex(p)) >= 0)
            => /\ HoleNext(p) = rightChildIndex(p)
               /\ At(trace.down, p) = At(trace.before, rightChildIndex(p))

\* C17, amended: where both children of the hole exist, the hole moves to
\* the right child, and the right child's value moves up, whenever
\* polarity_cmp(right, left) <= 0, and to the left child when it is > 0.
C17_RightWhenLeq ==
    (op = "Pop" /\ ret.ok) =>
        \A p \in HoleSteps :
            rightChildIndex(p) < trace.before.len =>
                IF PolCmp(rightChildIndex(p), leftChildIndex(p)) <= 0
                THEN /\ HoleNext(p) = rightChildIndex(p)
                     /\ At(trace.down, p) = At(trace.before, rightChildIndex(p))
                ELSE /\ HoleNext(p) = leftChildIndex(p)
                     /\ At(trace.down, p) = At(trace.before, leftChildIndex(p))

\* A Pop whose hole went to the right child of the root on a tie of the
\* root's two children, which differ from the root.
C17_Witness ==
    /\ op = "Pop"
    /\ ret.ok
    /\ trace.before.len >= 3
    /\ At(trace.before, 1) = At(trace.before, 2)
    /\ At(trace.before, 0) # At(trace.before, 2)
    /\ trace.hole = 2

\* C18: the value moved up into the hole is never worse than its sibling:
\* with both children the hole goes left only when the left child is
\* strictly better than the right, and right otherwise; with a left child
\* only it goes left; the descent stops exactly when the hole's left-child
\* index is >= the length.
C18_HoleDescent ==
    (op = "Pop" /\ ret.ok) =>
        /\ trace.hole \in 0..(trace.before.len - 1)
        /\ leftChildIndex(trace.hole) >= trace.before.len
        /\ \A p \in HoleSteps :
              LET lci == leftChildIndex(p)
                  rci == rightChildIndex(p)
                  c   == HoleNext(p)
              IN  /\ lci < trace.before.len
                  /\ c \in {lci, rci}
                  /\ c < trace.before.len
                  /\ At(trace.down, p) = At(trace.before, c)
                  /\ IF rci < trace.before.len
                     THEN /\ (c = lci) <=> (PolCmp(lci, rci) < 0)
                          /\ NotWorse(mom, At(trace.before, c),
                                      At(trace.before, IF c = lci THEN rci ELSE lci))
                     ELSE c = lci

\* A Pop whose hole went left at the root, the left child being strictly
\* better, and left again at a node with a left child only.
C18_Witness ==
    /\ op = "Pop"
    /\ ret.ok
    /\ trace.before.len = 4
    /\ PolCmp(1, 2) < 0
    /\ trace.hole = 3

\* The heap after pushing the elements of s onto a, in order.
RECURSIVE PushAll(_, _, _)
PushAll(a, s, m) ==
    IF s = <<>>
    THEN a
    ELSE LET b == push(a, Head(s), m, a.len + 1) IN
         IF b.len > a.len THEN PushAll(b, Tail(s), m) ELSE a

\* TestPopMin and TestPopMax: the layout after pushing 0..10 and two Pops.
TwoPops(m) ==
    Elems(pop(pop(PushAll(NilSlice, [k \in 1..11 |-> k - 1], m), m).sl, m).sl)
TestPopMin == TwoPops("Min") = <<2, 3, 5, 7, 4, 9, 6, 10, 8>>
TestPopMax == TwoPops("Max") = <<8, 7, 5, 6, 2, 1, 4, 0, 3>>

\* C19: after the hole descent of a successful Pop ends at index i: if i is
\* the last index the storage is only truncated by one; otherwise the former
\* last element is written at i and sifted up from i.  The length decreases
\* by exactly 1, and every cell that is neither on the root-to-i path nor
\* the last one keeps its value.  The layouts of TestPopMin and TestPopMax
\* come out.
C19_PopLayout ==
    /\ TestPopMin
    /\ TestPopMax
    /\ (op = "Pop" /\ ret.ok) =>
          LET n    == trace.before.len
              i    == trace.hole
              cut  == Reslice(trace.down, n - 1)
              last == At(trace.down, n - 1)
          IN  /\ h.len = n - 1
              /\ IF i = n - 1
                 THEN Elems(h) = Elems(cut)
                 ELSE Elems(h) = Elems(bubble([cut EXCEPT !.arr[i + 1] = last], i, mom))
              /\ \A k \in 0..(n - 2) : k \notin Path(i) => At(h, k) = At(trace.before, k)

\* A Pop whose hole ended above the last index and whose displaced element
\* rose from the hole to the hole's parent.
C19_Witness ==
    /\ op = "Pop"
    /\ ret.ok
    /\ trace.hole > 0
    /\ trace.hole < trace.before.len - 1
    /\ At(h, parentIndex(trace.hole)) = At(trace.before, trace.before.len - 1)
    /\ At(h, trace.hole) = At(trace.down, parentIndex(trace.hole))
    /\ At(h, trace.hole) # At(h, parentIndex(trace.hole))

\* C20: a successful Pop on a storage of length n and capacity c: if
\* n - 1 = 0 the storage becomes nil; otherwise if c >= 2 * (n - 1) the
\* elements are in a new store of capacity exactly n - 1; otherwise the store
\* is kept, its capacity still c, and only the length is reduced to n - 1.
C20_ShrinkRule ==
    (op = "Pop" /\ ret.ok) =>
        LET n == trace.before.len
            c == CapOf(trace.before)
        IN  IF n - 1 = 0
            THEN h.isnil /\ h.len = 0 /\ CapOf(h) = 0
            ELSE IF c >= 2 * (n - 1)
                 THEN ~h.isnil /\ h.len = n - 1 /\ CapOf(h) = n - 1
                      /\ ~SameStore(trace.before, h)
                 ELSE ~h.isnil /\ h.len = n - 1 /\ CapOf(h) = c
                      /\ SameStore(trace.before, h)

\* A Pop on a storage of three or more elements whose capacity was exactly
\* twice the new length.
C20_Witness ==
    /\ op = "Pop"
    /\ ret.ok
    /\ trace.before.len >= 3
    /\ CapOf(trace.before) = 2 * (trace.before.len - 1)
    /\ CapOf(h) = h.len

\* The heap after PushOrderable of the elements of s that a does not hold
\* yet, in order.
RECURSIVE PushAllOrderable(_, _, _)
PushAllOrderable(a, s, m) ==
    IF a.len >= Len(s)
    THEN a
    ELSE LET b == pushOrderable(a, s[a.len + 1], m, a.len + 1) IN
         IF b.len > a.len THEN PushAllOrderable(b, s, m) ELSE a

\* TestExpectedMinHeapLayout3 and TestExpectedMaxHeapLayout3: thirty elements
\* of key 10 pushed in the order of their contents lie in that order.
SameKeys == [k \in 1..30 |-> [Key |-> 10, Content |-> k - 1]]
TestExpectedMinHeapLayout3 == Elems(PushAllOrderable(NilSlice, SameKeys, "Min")) = SameKeys
TestExpectedMaxHeapLayout3 == Elems(PushAllOrderable(NilSlice, SameKeys, "Max")) = SameKeys

\* C21: Push puts the element at index n (the old length) and swaps it with
\* its parent only while it is strictly better than the parent: it ends at
\* an index p on the path from n to the root, the elements of the path
\* below p are the former parents moved down one step, each of which the
\* new element is strictly better than, the parent of p (if any) is one it
\* is not strictly better than, and every other element keeps its index.
\* An element equal to or worse than its parent stays at n and moves
\* nothing, so elements of equal keys lie in insertion order.
C21_PushSiftUp ==
    [][op' = "PushOrderable" =>
         LET n == h.len
             e == arg'.elem
             p == CHOOSE q \in 0..n : At(h', q) = e
         IN  /\ h'.len = n + 1
             /\ \E q \in 0..n : At(h', q) = e
             /\ p \in Path(n)
             /\ \A k \in 0..(n - 1) : k \notin Path(n) => At(h', k) = At(h, k)
             /\ \A q \in Path(n) :
                   /\ q < p => At(h', q) = At(h, q)
                   /\ q > p => /\ At(h', q) = At(h, parentIndex(q))
                               /\ mul(mom) * Cmp(e, At(h, parentIndex(q))) < 0
             /\ p > 0 => mul(mom) * Cmp(e, At(h, parentIndex(p))) >= 0
             /\ (n > 0 /\ mul(mom) * Cmp(e, At(h, parentIndex(n))) >= 0) =>
                   /\ p = n
                   /\ \A k \in 0..(n - 1) : At(h', k) = At(h, k)
             /\ (\A k \in 0..n : At(h', k).Key = e.Key) =>
                   \A k \in 0..n : At(h', k).Content = k
             /\ TestExpectedMinHeapLayout3
             /\ TestExpectedMaxHeapLayout3]_vars

\* A heap of MaxKeyedLen elements whose last push rose one level and stopped
\* below a parent of its own key, with another element of that key present.
C21_Witness ==
    /\ op = "PushOrderable"
    /\ h.len = MaxKeyedLen
    /\ \E q \in 1..(h.len - 2) :
          /\ At(h, q) = arg.elem
          /\ At(h, parentIndex(q)).Key = arg.elem.Key
    /\ \E k \in 0..(h.len - 1) : At(h, k).Key # arg.elem.Key

\* The (1-based) indices of the elements a Filter by f keeps, and the first
\* index it removes (n + 1 if it removes nothing from n elements).
KeptIdx(f) == {j \in Visited(f) : f[j].keep}
FirstRemoved(f) ==
    IF KeptIdx(f) = 1..Len(f)
    THEN Len(f) + 1
    ELSE CHOOSE k \in 1..Len(f) :
            k \notin KeptIdx(f) /\ \A j \in 1..(k - 1) : j \in KeptIdx(f)

\* C22 as stated: the elements stored before the first removed element are
\* untouched, storage[0..k-1] is the same index by index after Filter.
C22_PrefixUntouched ==
    [][op' = "Filter" =>
         \A j \in 1..(FirstRemoved(arg'.f) - 1) : h'.arr[j] = h.arr[j]]_vars

\* C22, amended: after Filter each index before the first removed element
\* holds the element it held or one that may stand above it (never a worse
\* one), the root is the same if it was kept, and the whole prefix is the
\* same when the heap had at most five elements.
C22_PrefixNotWorse ==
    [][op' = "Filter" =>
         /\ \A j \in 1..(FirstRemoved(arg'.f) - 1) :
               /\ j <= h'.len
               /\ NotWorse(mom, h'.arr[j], h.arr[j])
         /\ FirstRemoved(arg'.f) > 1 => h'.arr[1] = h.arr[1]
         /\ h.len <= 5 =>
               \A j \in 1..(FirstRemoved(arg'.f) - 1) : h'.arr[j] = h.arr[j]]_vars

\* A Filter of a six-element heap that removed the third element only and
\* left a different element at the second index.
C22_Witness ==
    /\ op = "Filter"
    /\ Len(arg.f) = 6
    /\ FirstRemoved(arg.f) = 3
    /\ h.len = 5
    /\ At(h, 1) # At(h, 4)
    /\ NotWorse(mom, At(h, 1), At(h, 4))

\* The elements of a that a Filter by f keeps, in visiting order.
KeptSeq(a, f) ==
    LET K == KeptIdx(f)
        RECURSIVE Take(_)
        Take(j) == IF j > Len(f) THEN <<>>
                   ELSE IF j \in K THEN <<a.arr[j]>> \o Take(j + 1) ELSE Take(j + 1)
    IN  Take(1)

\* Filter by "divisible by d", never breaking.
DivisibleBy(a, d) == [j \in 1..a.len |-> Verdict(a.arr[j] % d = 0, Continue)]
FilterDivisibleBy(a, d, m) == Elems(filter(a, DivisibleBy(a, d), m))

\* TestFilter2: Max heap of pushes 1..14 filtered by divisible-by-7.
TestFilter2 ==
    FilterDivisibleBy(PushAll(NilSlice, [k \in 1..14 |-> k], "Max"), 7, "Max") = <<14, 7>>

\* TestFilter9: its Min heap filtered by divisible-by-3.
TestFilter9 ==
    FilterDivisibleBy(
        PushAll(NilSlice,
                <<1, 2, 3, 4, 100, 5, 2, 2, 2, 1, 1, 1, 1, 1, 1, 6, 2, 2, 7, 2,
                  2, 2, 8, 9, 10, 11, 12, 13, 14>>, "Min"),
        3, "Min") = <<3, 6, 9, 12>>

\* C23: the layout after Filter is the layout obtained by pushing the kept
\* elements, in the order Filter visited them, one by one onto an empty heap
\* of the same polarity.  TestFilter2 gives 14,7 and TestFilter9 3,6,9,12.
C23_FilterAsPushes ==
    [][op' = "Filter" =>
         /\ Elems(h') = Elems(PushAll(NilSlice, KeptSeq(h, arg'.f), mom))
         /\ TestFilter2
         /\ TestFilter9]_vars

\* A Filter that removed the second element of a six-element heap, did not
\* break, and kept the last element and at least three others.
C23_Witness ==
    /\ op = "Filter"
    /\ Len(arg.f) = 6
    /\ BreakAt(arg.f) = 0
    /\ ~arg.f[2].keep
    /\ arg.f[6].keep
    /\ h.len >= 4
    /\ At(h, 0) # At(h, h.len - 1)

\* The calls of the predicate a Filter by f makes on the heap a.
Calls(a, f) == filterScan(a, f, 0, 0, 0 - 1).calls

\* C24: during one Filter call the predicate is invoked on the elements in
\* strictly increasing order of their index before Filter, index 0 first,
\* so at most once per element, each time on the element the storage held
\* at that index before Filter; on every element if it never signals
\* Break, and never again after it has signalled Break.
C24_PredicateCalls ==
    [][op' = "Filter" =>
         \A cs \in {Calls(h, arg'.f)} : \A b \in {BreakAt(arg'.f)} :
             /\ \A c \in 1..Len(cs) :
                   /\ cs[c].j = c - 1
                   /\ cs[c].j < h.len
                   /\ cs[c].elem = At(h, cs[c].j)
             /\ \A c, d \in 1..Len(cs) : c < d => cs[c].j < cs[d].j
             /\ b = 0 => Len(cs) = h.len
             /\ b > 0 => Len(cs) = b
             /\ \A c \in 1..(Len(cs) - 1) : arg'.f[cs[c].j + 1].boc = Continue]_vars

\* A Filter of a six-element heap whose predicate dropped the first element,
\* kept the second and signalled Break on the fourth, keeping it.
C24_Witness ==
    /\ op = "Filter"
    /\ Len(arg.f) = 6
    /\ BreakAt(arg.f) = 4
    /\ ~arg.f[1].keep
    /\ arg.f[2].keep
    /\ arg.f[4].keep
    /\ h.len >= 2

Sign(x) == IF x < 0 THEN 0 - 1 ELSE IF x > 0 THEN 1 ELSE 0

\* C25: the polarity-adjusted comparison has the sign of the comparator's
\* result r for a Min heap and the opposite sign for a Max heap, for every
\* machine integer r, the most negative one included.
C25_PolarityCmpSign ==
    op = "Cmp" =>
        /\ mom = "Min" => Sign(ret.val) = Sign(arg.elem)
        /\ mom = "Max" => Sign(ret.val) = 0 - Sign(arg.elem)

\* The element-wise negation of a sequence.
Negated(s) == [k \in 1..Len(s) |-> 0 - s[k]]

\* TestExpectedMaxHeapLayout1: the Max heap of these pushes, and the Min heap
\* of their negations.
Layout1Elems == <<1, 5, 2, 9, 0 - 3, 17, 18, 19, 14>>
TestExpectedMaxHeapLayout1 ==
    /\ Elems(PushAll(NilSlice, Layout1Elems, "Max")) = <<19, 18, 17, 14, 0 - 3, 2, 9, 1, 5>>
    /\ Elems(PushAll(NilSlice, Negated(Layout1Elems), "Min")) =
          Negated(<<19, 18, 17, 14, 0 - 3, 2, 9, 1, 5>>)

\* C26: Min and Max heaps are duals: after every Push, Pop and Filter the
\* layout of the heap is the element-wise negation of the layout of the
\* heap of the other polarity run on the negated values, and a Pop returns
\* the negation of what the other heap's Pop returns, with the same found.
C26_Duality ==
    [][/\ Elems(h') = Negated(Elems(cpy'.heap))
       /\ h'.len = cpy'.heap.len
       /\ op' = "Pop" =>
             /\ ret'.ok = pop(cpy.heap, Opposite(mom)).ok
             /\ ret'.val = 0 - pop(cpy.heap, Opposite(mom)).val
       /\ TestExpectedMaxHeapLayout1]_vars

\* A successful Pop of a Max heap that leaves three or more elements, not
\* all equal, beside its Min dual.
C26_Witness ==
    /\ op = "Pop"
    /\ ret.ok
    /\ mom = "Max"
    /\ h.len >= 3
    /\ cpy.heap.len = h.len
    /\ At(h, 0) # At(h, h.len - 1)
    /\ At(cpy.heap, 0) = 0 - At(h, 0)
    /\ At(h, 0) # 0

\* i is a valid index of the slice a.
InRange(a, i) == i >= 0 /\ i < a.len

\* C27: no operation accesses an index outside the valid range of the
\* storage.  Push writes the old length, which append made valid; Pop reads
\* the root and the last cell of a non-empty storage, its hole stays inside
\* the storage, and the write of the displaced element after shrink is
\* below the new length of a non-nil storage; Peek reads the root only when
\* there is one; Filter calls the predicate on valid indices, cuts the
\* storage to lengths within it, and in the re-push phase reads cells j
\* below the capacity and still has room for the append before its last
\* push, so that the store is never reallocated; Copy and Clear index
\* nothing.
C27_InRange ==
    [][/\ op' = "Push" =>
             /\ h'.len = h.len + 1
             /\ InRange(h', h.len)
             /\ h'.len <= CapOf(h')
       /\ op' = "Pop" =>
             IF h.len = 0
             THEN ~ret'.ok /\ h' = h
             ELSE \A d \in {pushRootHoleDownToLeaf(h, mom)} : \A t \in {shrink(d.sl)} :
                      /\ ret'.ok
                      /\ InRange(h, 0)
                      /\ InRange(h, d.i)
                      /\ \A p \in Path(d.i) : InRange(h, p)
                      /\ d.i + 1 # h.len =>
                            /\ InRange(d.sl, d.sl.len - 1)
                            /\ ~t.isnil
                            /\ InRange(t, d.i)
       /\ op' = "Peek" => (ret'.ok <=> InRange(h, 0))
       /\ op' = "Copy" => ret'.heap.len = h.len /\ CapOf(ret'.heap) >= h.len
       /\ op' = "Filter" =>
             \A sc \in {filterScan(h, arg'.f, 0, 0, 0 - 1)} :
               /\ \A c \in 1..Len(sc.calls) : InRange(h, sc.calls[c].j)
               /\ sc.i >= 0 /\ sc.i <= h.len
               /\ sc.first # 0 - 1 => sc.first >= 0 /\ sc.first <= sc.i
               /\ \A j \in sc.first..(sc.i - 1) : sc.first # 0 - 1 => j < CapOf(h)
               /\ sc.first # 0 - 1 =>
                     \A cur \in {filterRepush(Reslice(Reslice(sc.sl, sc.i), sc.first),
                                              sc.first, sc.i - 1, mom)} :
                         /\ cur.len = sc.i - 1
                         /\ sc.i - 1 < CapOf(cur)
                         /\ cur.len < CapOf(cur)
                         /\ CapOf(cur) = CapOf(h)
               /\ CapOf(h') = CapOf(h)
               /\ h'.len = sc.i]_vars

\* A Filter that dropped the first element of a full-length heap and
\* re-pushed three or more elements, the last of them read from beyond the
\* length the storage had then.
C27_Witness ==
    /\ op = "Filter"
    /\ Len(arg.f) = MaxLen
    /\ ~arg.f[1].keep
    /\ h.len >= 3
    /\ CapOf(h) > h.len

\* C28: every call of Push, Pop and Filter returns: bubble's index goes to
\* the parent in every iteration that stays in the loop, the hole goes to a
\* child, the scan's j and the re-push loop's j go up by one, and a running
\* call always comes to its end.
C28_Returns ==
    /\ [][/\ (phase = "bubble" /\ phase' = "bubble") =>
                trace'.hole = parentIndex(trace.hole) /\ trace'.hole < trace.hole
          /\ (phase = "descend" /\ phase' = "descend") =>
                /\ trace'.hole > trace.hole
                /\ trace'.hole \in {leftChildIndex(trace.hole), rightChildIndex(trace.hole)}
                /\ trace'.hole < h.len
          /\ (phase = "scan" /\ phase' = "scan") => trace'.j = trace.j + 1
          /\ (phase = "repush" /\ phase' = "bubble") =>
                trace'.j = trace.j + 1 /\ trace'.j <= trace.i]_vars
    /\ (phase # "idle") ~> (phase = "idle")

\* A Filter has returned after it re-pushed three or more elements of a
\* full-length heap.
C28_Witness ==
    /\ phase = "idle"
    /\ op = "Filter"
    /\ Len(arg.f) = MaxLoopLen
    /\ h.len >= 3
    /\ h.len < MaxLoopLen

====
